---- MODULE Spec2Model ----
(***************************************************************************)
(* Model of the notes backend: the workspace / collaborator handlers of    *)
(* app/routes/workspace.py, the note / content handlers of                 *)
(* app/routes/note.py and the token functions of app/auth/jwt_handler.py   *)
(* and app/routes/user_routes.py, running against the five collections of  *)
(* app/database.py.                                                        *)
(*                                                                         *)
(* The collections are modelled as sets of documents with the semantics    *)
(* of a document store: insert_one adds a document under a fresh _id,      *)
(* find_one returns the first matching document or None, update_one and    *)
(* delete_one act on the first match, delete_many on every match, and a    *)
(* delete or update that matches nothing is a no-op.  Every store call is  *)
(* atomic; a handler is a sequence of store calls.  A handler's reads and  *)
(* checks up to its first write form its first step, every later write is  *)
(* a step of its own.                                                      *)
(*                                                                         *)
(* The handlers use the results of the store calls directly (no await), so *)
(* the calls are modelled with the results of a synchronous driver.  The   *)
(* request schemas the routes import under other names than                *)
(* app/schema/workspace.py defines (WorkspaceCreate, CollabCreate) are     *)
(* taken to be WorkSpaceCreate and AddUserToWorkSpace: a workspace         *)
(* document has no workspace_id field until update_workspace sets one, a   *)
(* collaborator document has workspace_id, user_id and access only.        *)
(*                                                                         *)
(* revoked and deleted are history variables: the last collaborator entry  *)
(* the owner removed or downgraded, and the workspaces whose delete has    *)
(* completed with the user who ran it.  abandoned is one too: the deletes  *)
(* that ended before their last store call, with the user who ran them.    *)
(***************************************************************************)
EXTENDS Integers, FiniteSets, Sequences, TLC

\* ---------------------------------------------------------------- bounds
MaxUsers == 2
MaxWs == 1
MaxCollabs == 2
MaxNotes == 1
MaxContents == 2
MaxText == 2
NProcs == 2
MaxTime == 32

\* user ids and workspace ids are ObjectIds of different collections: never equal
Users == {100 + i : i \in 1..MaxUsers}
WsIds == 1..MaxWs
NoteIds == 1..MaxNotes
Texts == 1..MaxText
Procs == 1..NProcs

\* Python's None as the value of a field, and the absence of the field
None == 0

\* Python's None where a document or a token payload is expected
NoDoc == [_id |-> None]

AccessLevels == {"r", "rw"}

VARIABLES workspaces, collabs, notes, contents, ids, req, revoked, deleted,
          now, issued, abandoned

store == <<workspaces, collabs, notes, contents>>
\* the clock, the token a client holds and the abandoned deletes: the
\* handlers neither read nor write them
env == <<now, issued, abandoned>>
vars == <<workspaces, collabs, notes, contents, ids, req, revoked, deleted, env>>

\* ------------------------------------------------------------ the store
\* find_one: the first document (in insertion order) of the matching ones
FindOne(matching) ==
    IF matching = {} THEN NoDoc
    ELSE CHOOSE d \in matching : \A e \in matching : d._id <= e._id

WorkspaceById(wid) == FindOne({w \in workspaces : w._id = wid})

NoteById(nid) == FindOne({n \in notes : n._id = nid})

\* collabs.find_one({'workspace_id': wid, 'user_id': uid})
CollabOf(wid, uid) ==
    FindOne({c \in collabs : c.workspace_id = wid /\ c.user_id = uid})

\* workspaces.find_one({'workspace_id': wid, 'user_id': uid}): the filter
\* is on the document's workspace_id FIELD, which only update_workspace
\* can set, and on the owner field user_id
WorkspaceOfUser(wid, uid) ==
    FindOne({w \in workspaces : w.workspace_id = wid /\ w.user_id = uid})

\* ------------------------------------------------------------- tokens
\* time is counted in minutes
ACCESS_TOKEN_EXPIRE_MINUTES == 30

\* create_access_token: the claims of data, the claim exp added, signed
\* with SECRET_KEY; sig tells whether the signature is the server's
create_access_token(data) ==
    [sig |-> "ok", user_id |-> data.user_id, workspace_id |-> data.workspace_id,
     workspace_name |-> data.workspace_name, access |-> data.access,
     exp |-> now + ACCESS_TOKEN_EXPIRE_MINUTES]

\* the token login_user returns for user u (user_routes.py line 32)
LoginToken(u) ==
    create_access_token([user_id |-> u, workspace_id |-> u,
                         workspace_name |-> "personal", access |-> "rw"])

\* a token that is malformed or signed with another key
BadToken ==
    [sig |-> "bad", user_id |-> None, workspace_id |-> None,
     workspace_name |-> "personal", access |-> "rw", exp |-> 0]

\* jwt.decode (python-jose) accepts a token with the server's signature whose exp is not
\* in the past and returns its payload; it raises JWTError otherwise
jwt_decode(token) == IF token.sig = "ok" /\ token.exp >= now THEN token ELSE NoDoc

\* a jwt.decode that does not look at exp
jwt_decode_NoExpiry(token) == IF token.sig = "ok" THEN token ELSE NoDoc

\* verify_token: the payload, None where jwt.decode raises JWTError
verify_token(token) == jwt_decode(token)

get_current_user(token) == verify_token(token)

\* the tokens a request can present.  The server keeps no record of the
\* tokens it issued: the ones that verify are the ones create_access_token
\* signed, and login_user signs LoginToken(u) for any user at any time
\* (get_workspace_token never gets as far as signing one, see below)
Presentable == {LoginToken(u) : u \in Users} \cup {BadToken}

\* ------------------------------------------------------------ requests
Idle ==
    [op |-> "none", pc |-> "idle", tok |-> BadToken, wid |-> None,
     uid |-> None, nid |-> None, key |-> "none", val |-> None,
     resp |-> "none", loc |-> {}, ghost |-> {}, out |-> <<>>]

\* a request in flight at pc
Running(op, pc, tok, wid, uid, nid, key, val, loc) ==
    [op |-> op, pc |-> pc, tok |-> tok, wid |-> wid, uid |-> uid,
     nid |-> nid, key |-> key, val |-> val, resp |-> "none", loc |-> loc,
     ghost |-> {}, out |-> <<>>]

\* a request that has returned resp; its payload and locals are gone; out
\* is the list a listing request returns
Done(op, tok, wid, uid, nid, resp) ==
    [op |-> op, pc |-> "done", tok |-> tok, wid |-> wid, uid |-> uid,
     nid |-> nid, key |-> "none", val |-> None, resp |-> resp, loc |-> {},
     ghost |-> {}, out |-> <<>>]

Finish(r, resp) == Done(r.op, r.tok, r.wid, r.uid, r.nid, resp)

\* a process may start a request when it runs none
CanInvoke(p) == req[p].pc = "idle"

\* the response of a finished request is delivered and the process is free again
Return(p) ==
    /\ req[p].pc = "done"
    /\ req' = [req EXCEPT ![p] = Idle]
    /\ UNCHANGED <<workspaces, collabs, notes, contents, ids, revoked, deleted, env>>

Init ==
    /\ workspaces = {}
    /\ collabs = {}
    /\ notes = {}
    /\ contents = {}
    /\ ids = [ws |-> 0, collab |-> 0, note |-> 0, content |-> 0]
    /\ req = [p \in Procs |-> Idle]
    /\ revoked = <<>>
    /\ deleted = {}
    /\ now = 0
    /\ issued = NoDoc
    /\ abandoned = {}

\* ----------------------------------------------------------- user_routes
\* login_user: issues the token scoped to the caller's personal workspace
login_user(p, u) ==
    /\ CanInvoke(p)
    /\ req' = [req EXCEPT ![p] = Done("login_user", LoginToken(u), None, u, None, "OK")]
    /\ UNCHANGED <<workspaces, collabs, notes, contents, ids, revoked, deleted, env>>

\* get_workspace_token, lines 36-46: jwt.decode is called outside any try,
\* so its JWTError leaves the handler; the collaborator entry is looked up
\* and its fields are read without a test for None, and the field
\* workspace_name is read from a document that may not have it
get_workspace_token_result(tok, wid) ==
    LET payload == jwt_decode(tok)
        workspace == CollabOf(wid, payload.user_id)
    IN  IF payload = NoDoc THEN "Crash"
        ELSE IF workspace = NoDoc THEN "Crash"
        ELSE IF "workspace_name" \notin DOMAIN workspace THEN "Crash"
        ELSE "OK"

get_workspace_token(p, tok, wid) ==
    /\ CanInvoke(p)
    /\ tok \in Presentable
    /\ LET result == get_workspace_token_result(tok, wid) IN
       /\ req' = [req EXCEPT ![p] = Done("get_workspace_token", tok, wid, None, None, result)]
       /\ issued' = IF result = "OK"
                    THEN create_access_token(
                           [user_id |-> tok.user_id, workspace_id |-> wid,
                            workspace_name |-> CollabOf(wid, tok.user_id).workspace_name,
                            access |-> CollabOf(wid, tok.user_id).access])
                    ELSE issued
    /\ UNCHANGED <<workspaces, collabs, notes, contents, ids, revoked, deleted, now, abandoned>>

\* ------------------------------------------------------ create_workspace
\* lines 19-23: the workspace document is inserted and read back
create_workspace(p, tok, name) ==
    /\ CanInvoke(p)
    /\ tok \in Presentable
    /\ ids.ws < MaxWs /\ ids.collab < MaxCollabs
    /\ LET current_user == get_current_user(tok) IN
       IF current_user = NoDoc
       THEN /\ req' = [req EXCEPT ![p] = Done("create_workspace", tok, None, None, None, "Crash")]
            /\ UNCHANGED <<workspaces, ids>>
       ELSE /\ workspaces' = workspaces \cup
                   {[_id |-> ids.ws + 1, user_id |-> current_user.user_id,
                     workspace_name |-> name, workspace_id |-> None]}
            /\ ids' = [ids EXCEPT !.ws = @ + 1]
            /\ req' = [req EXCEPT ![p] =
                   Running("create_workspace", "cw_collab", tok, ids.ws + 1,
                           None, None, "none", None, {})]
    /\ UNCHANGED <<collabs, notes, contents, revoked, deleted, env>>

\* lines 26-36: the owner's collaborator entry is inserted, then the response
create_workspace_collab(p) ==
    /\ req[p].pc = "cw_collab"
    /\ collabs' = collabs \cup
           {[_id |-> ids.collab + 1, workspace_id |-> req[p].wid,
             user_id |-> req[p].tok.user_id, access |-> "rw"]}
    /\ ids' = [ids EXCEPT !.collab = @ + 1]
    /\ req' = [req EXCEPT ![p] = Finish(req[p], "OK")]
    /\ UNCHANGED <<workspaces, notes, contents, revoked, deleted, env>>

\* ------------------------------------------------------ update_workspace
\* the request bodies of update_workspace: one key of the update dict, with
\* a value or None
WorkspaceUpdates ==
    ({"workspace_name"} \X (Texts \cup {None}))
      \cup ({"user_id"} \X Users) \cup ({"workspace_id"} \X WsIds)

\* {'$set': {k: v for k, v in update.items() if v is not None}} on doc
SetField(doc, key, val) == IF val = None THEN doc ELSE [doc EXCEPT ![key] = val]

\* lines 99-112, shared by the five owner-only handlers (138-151, 177-190,
\* 254-267, 304-317): the workspace is looked up by _id, then the owner check
\* the check without the comparison of the owner with the caller
OwnerCheck_AnyCaller(tok, wid) ==
    LET workspace == WorkspaceById(wid)
        current_user == get_current_user(tok) IN
    IF workspace = NoDoc THEN "NotFound"
    ELSE IF current_user = NoDoc THEN "Crash"
    ELSE "pass"

OwnerCheck(tok, wid) ==
    LET workspace == WorkspaceById(wid)
        current_user == get_current_user(tok) IN
    IF workspace = NoDoc THEN "NotFound"
    ELSE IF current_user = NoDoc THEN "Crash"
    ELSE IF workspace.user_id # current_user.user_id THEN "Forbidden"
    ELSE "pass"

update_workspace(p, tok, wid, key, val) ==
    /\ CanInvoke(p)
    /\ tok \in Presentable
    /\ LET check == OwnerCheck(tok, wid) IN
       req' = [req EXCEPT ![p] =
                 IF check = "pass"
                 THEN Running("update_workspace", "uw_update", tok, wid, None, None, key, val, {})
                 ELSE Done("update_workspace", tok, wid, None, None, check)]
    /\ UNCHANGED <<workspaces, collabs, notes, contents, ids, revoked, deleted, env>>

\* lines 117-127: update_one, then the document is read back for the response
update_workspace_update(p) ==
    /\ req[p].pc = "uw_update"
    /\ LET workspace == WorkspaceById(req[p].wid) IN
       IF workspace = NoDoc
       THEN /\ req' = [req EXCEPT ![p] = Finish(req[p], "Crash")]
            /\ UNCHANGED workspaces
       ELSE /\ workspaces' = (workspaces \ {workspace})
                               \cup {SetField(workspace, req[p].key, req[p].val)}
            /\ req' = [req EXCEPT ![p] = Finish(req[p], "OK")]
    /\ UNCHANGED <<collabs, notes, contents, ids, revoked, deleted, env>>

\* ------------------------------------------------------ delete_workspace
NotesOfWorkspace(wid) == {n \in notes : n.workspace_id = wid}

\* what the cascade of workspace wid has to remove: its notes and their contents
CascadeOf(wid) ==
    {<<"note", n._id>> : n \in NotesOfWorkspace(wid)}
      \cup {<<"content", c._id>> :
               c \in {d \in contents : \E n \in NotesOfWorkspace(wid) : d.note_id = n._id}}

\* a cascade that leaves the contents of the note behind
ContentsWithoutNote_Kept(note_id) == contents

\* contents.delete_many({'note_id': note_id})
ContentsWithoutNote(note_id) == {c \in contents : c.note_id # note_id}

\* notes.delete_many({'workspace_id': wid})
NotesWithoutWorkspace(wid) == {n \in notes : n.workspace_id # wid}

\* collabs.delete_many({'workspace_id': wid})
CollabsWithoutWorkspace(wid) == {c \in collabs : c.workspace_id # wid}

delete_workspace(p, tok, wid) ==
    /\ CanInvoke(p)
    /\ tok \in Presentable
    /\ LET check == OwnerCheck(tok, wid) IN
       req' = [req EXCEPT ![p] =
                 IF check = "pass"
                 THEN [Running("delete_workspace", "dw_workspace", tok, wid, None, None, "none", None, {})
                         EXCEPT !.ghost = CascadeOf(wid)]
                 ELSE Done("delete_workspace", tok, wid, None, None, check)]
    /\ UNCHANGED <<workspaces, collabs, notes, contents, ids, revoked, deleted, env>>

\* line 154: workspaces.delete_one
delete_workspace_workspace(p) ==
    /\ req[p].pc = "dw_workspace"
    /\ workspaces' = {w \in workspaces : w._id # req[p].wid}
    /\ req' = [req EXCEPT ![p].pc = "dw_collabs"]
    /\ UNCHANGED <<collabs, notes, contents, ids, revoked, deleted, env>>

\* lines 155-158: collabs.delete_many, then the notes of the workspace are listed
delete_workspace_collabs(p) ==
    /\ req[p].pc = "dw_collabs"
    /\ collabs' = CollabsWithoutWorkspace(req[p].wid)
    /\ req' = [req EXCEPT ![p].pc = "dw_contents",
                          ![p].loc = {n._id : n \in NotesOfWorkspace(req[p].wid)}]
    /\ revoked' = IF revoked # <<>> /\ revoked[1] = req[p].wid THEN <<>> ELSE revoked
    /\ UNCHANGED <<workspaces, notes, contents, ids, deleted, env>>

\* lines 159-161: one pass of the loop, contents.delete_many for the next note
delete_workspace_contents(p) ==
    /\ req[p].pc = "dw_contents"
    /\ req[p].loc # {}
    /\ LET note_id == CHOOSE n \in req[p].loc : \A m \in req[p].loc : n <= m IN
       /\ contents' = ContentsWithoutNote(note_id)
       /\ req' = [req EXCEPT ![p].loc = @ \ {note_id}]
    /\ UNCHANGED <<workspaces, collabs, notes, ids, revoked, deleted, env>>

\* lines 163-165: notes.delete_many after the loop, then the response
delete_workspace_notes(p) ==
    /\ req[p].pc = "dw_contents"
    /\ req[p].loc = {}
    /\ notes' = NotesWithoutWorkspace(req[p].wid)
    /\ req' = [req EXCEPT ![p] = [Finish(req[p], "OK") EXCEPT !.ghost = req[p].ghost]]
    /\ deleted' = deleted \cup {<<req[p].wid, req[p].tok.user_id>>}
    /\ UNCHANGED <<workspaces, collabs, contents, ids, revoked, env>>

\* lines 153-165 run without transaction and without exception handler: a
\* store call that raises, or the end of the server process, ends the
\* request between two store calls and leaves what the earlier calls wrote
delete_workspace_abandon(p) ==
    /\ req[p].op = "delete_workspace"
    /\ req[p].pc \in {"dw_workspace", "dw_collabs", "dw_contents"}
    /\ abandoned' = abandoned \cup {<<req[p].wid, req[p].tok.user_id>>}
    /\ req' = [req EXCEPT ![p] = Idle]
    /\ UNCHANGED <<workspaces, collabs, notes, contents, ids, revoked, deleted, now, issued>>

\* ------------------------------------------------------ add_collaborator
\* lines 177-202
add_collaborator_check(tok, wid, uid) ==
    LET owner == OwnerCheck(tok, wid) IN
    IF owner # "pass" THEN owner
    ELSE IF CollabOf(wid, uid) # NoDoc THEN "Conflict"
    ELSE "pass"

add_collaborator(p, tok, wid, uid, acc) ==
    /\ CanInvoke(p)
    /\ tok \in Presentable
    /\ LET check == add_collaborator_check(tok, wid, uid) IN
       /\ check = "pass" => ids.collab < MaxCollabs
       /\ req' = [req EXCEPT ![p] =
                 IF check = "pass"
                 THEN Running("add_collaborator", "ac_insert", tok, wid, uid, None, "access", acc, {})
                 ELSE Done("add_collaborator", tok, wid, uid, None, check)]
    /\ UNCHANGED <<workspaces, collabs, notes, contents, ids, revoked, deleted, env>>

\* lines 204-212: insert_one, then the response
add_collaborator_insert(p) ==
    /\ req[p].pc = "ac_insert"
    /\ collabs' = collabs \cup
           {[_id |-> ids.collab + 1, workspace_id |-> req[p].wid,
             user_id |-> req[p].uid, access |-> req[p].val]}
    /\ ids' = [ids EXCEPT !.collab = @ + 1]
    /\ req' = [req EXCEPT ![p] = Finish(req[p], "OK")]
    /\ revoked' = IF req[p].val = "rw" /\ revoked = <<req[p].wid, req[p].uid>> THEN <<>> ELSE revoked
    /\ UNCHANGED <<workspaces, notes, contents, deleted, env>>

\* -------------------------- update_collaborator_access, remove_collaborator
\* lines 254-285 and 304-335: owner check, self check, then the entry is looked up
\* the check without the protection of the owner's own entry
collaborator_check_NoSelfCheck(tok, wid, uid) ==
    LET owner == OwnerCheck(tok, wid) IN
    IF owner # "pass" THEN owner
    ELSE IF CollabOf(wid, uid) = NoDoc THEN "NotFound"
    ELSE "pass"

collaborator_check(tok, wid, uid) ==
    LET owner == OwnerCheck(tok, wid) IN
    IF owner # "pass" THEN owner
    ELSE IF uid = get_current_user(tok).user_id THEN "InvalidOperation"
    ELSE IF CollabOf(wid, uid) = NoDoc THEN "NotFound"
    ELSE "pass"

update_collaborator_access(p, tok, wid, uid, acc) ==
    /\ CanInvoke(p)
    /\ tok \in Presentable
    /\ LET check == collaborator_check(tok, wid, uid) IN
       req' = [req EXCEPT ![p] =
                 IF check = "pass"
                 THEN Running("update_collaborator_access", "uc_update", tok, wid, uid, None,
                              "access", acc, {CollabOf(wid, uid)._id})
                 ELSE Done("update_collaborator_access", tok, wid, uid, None, check)]
    /\ UNCHANGED <<workspaces, collabs, notes, contents, ids, revoked, deleted, env>>

\* lines 287-292: update_one on the _id found
update_collaborator_access_update(p) ==
    /\ req[p].pc = "uc_update"
    /\ collabs' = {IF c._id \in req[p].loc THEN [c EXCEPT !.access = req[p].val] ELSE c : c \in collabs}
    /\ req' = [req EXCEPT ![p] = Finish(req[p], "OK")]
    /\ revoked' =
         IF \E c \in collabs : c._id \in req[p].loc
         THEN IF req[p].val = "rw"
              THEN IF revoked = <<req[p].wid, req[p].uid>> THEN <<>> ELSE revoked
              ELSE <<req[p].wid, req[p].uid>>
         ELSE revoked
    /\ UNCHANGED <<workspaces, notes, contents, ids, deleted, env>>

remove_collaborator(p, tok, wid, uid) ==
    /\ CanInvoke(p)
    /\ tok \in Presentable
    /\ LET check == collaborator_check(tok, wid, uid) IN
       req' = [req EXCEPT ![p] =
                 IF check = "pass"
                 THEN Running("remove_collaborator", "rc_delete", tok, wid, uid, None,
                              "none", None, {CollabOf(wid, uid)._id})
                 ELSE Done("remove_collaborator", tok, wid, uid, None, check)]
    /\ UNCHANGED <<workspaces, collabs, notes, contents, ids, revoked, deleted, env>>

\* lines 337-339: delete_one on the _id found
remove_collaborator_delete(p) ==
    /\ req[p].pc = "rc_delete"
    /\ collabs' = {c \in collabs : c._id \notin req[p].loc}
    /\ req' = [req EXCEPT ![p] = Finish(req[p], "OK")]
    /\ revoked' = IF \E c \in collabs : c._id \in req[p].loc
                  THEN <<req[p].wid, req[p].uid>> ELSE revoked
    /\ UNCHANGED <<workspaces, notes, contents, ids, deleted, env>>

\* the steps of the workspace and collaborator handlers of process p
WorkspaceNext(p) ==
    \/ \E tok \in Presentable, name \in Texts : create_workspace(p, tok, name)
    \/ create_workspace_collab(p)
    \/ \E tok \in Presentable, wid \in WsIds, u \in WorkspaceUpdates :
          update_workspace(p, tok, wid, u[1], u[2])
    \/ update_workspace_update(p)
    \/ \E tok \in Presentable, wid \in WsIds : delete_workspace(p, tok, wid)
    \/ delete_workspace_workspace(p)
    \/ delete_workspace_collabs(p)
    \/ delete_workspace_contents(p)
    \/ delete_workspace_notes(p)
    \/ \E tok \in Presentable, wid \in WsIds, uid \in Users, acc \in AccessLevels :
          add_collaborator(p, tok, wid, uid, acc)
    \/ add_collaborator_insert(p)
    \/ \E tok \in Presentable, wid \in WsIds, uid \in Users, acc \in AccessLevels :
          update_collaborator_access(p, tok, wid, uid, acc)
    \/ update_collaborator_access_update(p)
    \/ \E tok \in Presentable, wid \in WsIds, uid \in Users :
          remove_collaborator(p, tok, wid, uid)
    \/ remove_collaborator_delete(p)

\* --------------------------------------------------------------- notes
MaxSection == 2
Sections == 1..MaxSection

\* `current_user['access'] not in [...]`: subscripting None raises
AccessCheck(tok, allowed) ==
    LET current_user == get_current_user(tok) IN
    IF current_user = NoDoc THEN "Crash"
    ELSE IF current_user.access \notin allowed THEN "Forbidden"
    ELSE "pass"

\* note.py lines 23-39
create_note_check(tok, wid) ==
    LET access == AccessCheck(tok, {"rw"}) IN
    IF access # "pass" THEN access
    ELSE IF WorkspaceOfUser(wid, get_current_user(tok).user_id) = NoDoc THEN "NotFound"
    ELSE "pass"

\* the creator recorded in a new note: line 42 overwrites the body's user_id
NoteCreator(tok, body_user_id) == get_current_user(tok).user_id

create_note(p, tok, wid, body_user_id, header) ==
    /\ CanInvoke(p)
    /\ tok \in Presentable
    /\ LET check == create_note_check(tok, wid) IN
       /\ check = "pass" => ids.note < MaxNotes
       /\ req' = [req EXCEPT ![p] =
                 IF check = "pass"
                 THEN Running("create_note", "cn_insert", tok, wid, body_user_id, None,
                              "header", header, {})
                 ELSE Done("create_note", tok, wid, None, None, check)]
    /\ UNCHANGED <<workspaces, collabs, notes, contents, ids, revoked, deleted, env>>

\* lines 41-49: insert_one, then the response
create_note_insert(p) ==
    /\ req[p].pc = "cn_insert"
    /\ notes' = notes \cup
           {[_id |-> ids.note + 1, user_id |-> NoteCreator(req[p].tok, req[p].uid),
             workspace_id |-> req[p].wid, header |-> req[p].val]}
    /\ ids' = [ids EXCEPT !.note = @ + 1]
    /\ req' = [req EXCEPT ![p] =
                 Done("create_note", req[p].tok, req[p].wid, None, ids.note + 1, "OK")]
    /\ UNCHANGED <<workspaces, collabs, contents, revoked, deleted, env>>

\* lines 60-84
get_notes_of_workspace(p, tok, wid) ==
    /\ CanInvoke(p)
    /\ tok \in Presentable
    /\ LET access == AccessCheck(tok, {"r", "rw"})
           check == IF access # "pass" THEN access
                    ELSE IF WorkspaceOfUser(wid, get_current_user(tok).user_id) = NoDoc
                         THEN "NotFound" ELSE "OK" IN
       req' = [req EXCEPT ![p] = Done("get_notes_of_workspace", tok, wid, None, None, check)]
    /\ UNCHANGED <<workspaces, collabs, notes, contents, ids, revoked, deleted, env>>

\* lines 95-119, 262-286 and 217-241: access level, then the note, then the
\* workspace of the note owned by the caller
NoteAccessCheck(tok, nid, allowed) ==
    LET access == AccessCheck(tok, allowed)
        note == NoteById(nid) IN
    IF access # "pass" THEN access
    ELSE IF note = NoDoc THEN "NotFound"
    ELSE IF WorkspaceOfUser(note.workspace_id, get_current_user(tok).user_id) = NoDoc
         THEN "Forbidden"
    ELSE "pass"

\* lines 136-155 and 180-199: access level, then the note, then its creator
\* the check without the comparison of the creator with the caller
NoteOwnerCheck_AnyCaller(tok, nid) ==
    LET access == AccessCheck(tok, {"rw"})
        note == NoteById(nid) IN
    IF access # "pass" THEN access
    ELSE IF note = NoDoc THEN "NotFound"
    ELSE "pass"

NoteOwnerCheck(tok, nid) ==
    LET access == AccessCheck(tok, {"rw"})
        note == NoteById(nid) IN
    IF access # "pass" THEN access
    ELSE IF note = NoDoc THEN "NotFound"
    ELSE IF note.user_id # get_current_user(tok).user_id THEN "Forbidden"
    ELSE "pass"

\* the workspace_id of the note a request is about, None when there is no such note
WorkspaceOfNote(nid) == IF NoteById(nid) = NoDoc THEN None ELSE NoteById(nid).workspace_id

get_note(p, tok, nid) ==
    /\ CanInvoke(p)
    /\ tok \in Presentable
    /\ LET check == NoteAccessCheck(tok, nid, {"r", "rw"}) IN
       req' = [req EXCEPT ![p] =
                 Done("get_note", tok, WorkspaceOfNote(nid), None, nid,
                      IF check = "pass" THEN "OK" ELSE check)]
    /\ UNCHANGED <<workspaces, collabs, notes, contents, ids, revoked, deleted, env>>

\* lines 262-294
\* the lists of the documents of set docs, each once
ListingsOf(docs) ==
    {l \in [1..Cardinality(docs) -> docs] : \A i, j \in DOMAIN l : l[i] = l[j] => i = j}

\* line 288, contents.find({'note_id': nid}).sort('section_no', 1): the
\* store returns the matching documents by ascending section_no; it
\* promises no order among documents of equal section_no, so each of
\* their orders is a possible result
SortedContents(nid) ==
    {l \in ListingsOf({c \in contents : c.note_id = nid}) :
        \A i, j \in DOMAIN l : i < j => l[i].section_no <= l[j].section_no}

get_note_contents(p, tok, nid) ==
    /\ CanInvoke(p)
    /\ tok \in Presentable
    /\ LET check == NoteAccessCheck(tok, nid, {"r", "rw"}) IN
       IF check = "pass"
       THEN \E contents_list \in SortedContents(nid) :
              req' = [req EXCEPT ![p] =
                        [Done("get_note_contents", tok, WorkspaceOfNote(nid), None, nid, "OK")
                           EXCEPT !.out = contents_list]]
       ELSE req' = [req EXCEPT ![p] =
                      Done("get_note_contents", tok, WorkspaceOfNote(nid), None, nid, check)]
    /\ UNCHANGED <<workspaces, collabs, notes, contents, ids, revoked, deleted, env>>

\* the request bodies of update_note: one key of the update dict
\* a workspace id the body of a request can name and no workspace has
OtherWorkspace == MaxWs + 1

NoteUpdates ==
    ({"header"} \X (Texts \cup {None}))
      \cup ({"user_id"} \X Users) \cup ({"workspace_id"} \X (WsIds \cup {OtherWorkspace}))

update_note(p, tok, nid, key, val) ==
    /\ CanInvoke(p)
    /\ tok \in Presentable
    /\ LET check == NoteOwnerCheck(tok, nid) IN
       req' = [req EXCEPT ![p] =
                 IF check = "pass"
                 THEN Running("update_note", "un_update", tok, WorkspaceOfNote(nid), None, nid,
                              key, val, {})
                 ELSE Done("update_note", tok, WorkspaceOfNote(nid), None, nid, check)]
    /\ UNCHANGED <<workspaces, collabs, notes, contents, ids, revoked, deleted, env>>

\* lines 157-169: update_one, then the note is read back for the response
update_note_update(p) ==
    /\ req[p].pc = "un_update"
    /\ LET note == NoteById(req[p].nid) IN
       IF note = NoDoc
       THEN /\ req' = [req EXCEPT ![p] = Finish(req[p], "Crash")]
            /\ UNCHANGED notes
       ELSE /\ notes' = (notes \ {note}) \cup {SetField(note, req[p].key, req[p].val)}
            /\ req' = [req EXCEPT ![p] = Finish(req[p], "OK")]
    /\ UNCHANGED <<workspaces, collabs, contents, ids, revoked, deleted, env>>

\* the content sections of note nid
ContentsOf(nid) == {<<"content", c._id>> : c \in {d \in contents : d.note_id = nid}}

\* a delete_note that deletes the contents before it checks the caller
delete_note_WriteFirst(p, tok, nid) ==
    /\ CanInvoke(p)
    /\ tok \in Presentable
    /\ contents' = ContentsWithoutNote(nid)
    /\ LET check == NoteOwnerCheck(tok, nid) IN
       req' = [req EXCEPT ![p] =
                 IF check = "pass"
                 THEN [Running("delete_note", "dn_note", tok, WorkspaceOfNote(nid), None, nid,
                               "none", None, {})
                         EXCEPT !.ghost = ContentsOf(nid)]
                 ELSE Done("delete_note", tok, WorkspaceOfNote(nid), None, nid, check)]
    /\ UNCHANGED <<workspaces, collabs, notes, ids, revoked, deleted, env>>

delete_note(p, tok, nid) ==
    /\ CanInvoke(p)
    /\ tok \in Presentable
    /\ LET check == NoteOwnerCheck(tok, nid) IN
       req' = [req EXCEPT ![p] =
                 IF check = "pass"
                 THEN [Running("delete_note", "dn_note", tok, WorkspaceOfNote(nid), None, nid,
                               "none", None, {})
                         EXCEPT !.ghost = ContentsOf(nid)]
                 ELSE Done("delete_note", tok, WorkspaceOfNote(nid), None, nid, check)]
    /\ UNCHANGED <<workspaces, collabs, notes, contents, ids, revoked, deleted, env>>

\* line 202: notes.delete_one
delete_note_note(p) ==
    /\ req[p].pc = "dn_note"
    /\ notes' = {n \in notes : n._id # req[p].nid}
    /\ req' = [req EXCEPT ![p].pc = "dn_contents"]
    /\ UNCHANGED <<workspaces, collabs, contents, ids, revoked, deleted, env>>

\* a delete_note that answers without deleting the contents
delete_note_contents_Skipped(p) ==
    /\ req[p].pc = "dn_contents"
    /\ contents' = contents
    /\ req' = [req EXCEPT ![p] = [Finish(req[p], "OK") EXCEPT !.ghost = req[p].ghost]]
    /\ UNCHANGED <<workspaces, collabs, notes, ids, revoked, deleted, env>>

\* lines 203-205: contents.delete_many, then the response
delete_note_contents(p) ==
    /\ req[p].pc = "dn_contents"
    /\ contents' = ContentsWithoutNote(req[p].nid)
    /\ req' = [req EXCEPT ![p] = [Finish(req[p], "OK") EXCEPT !.ghost = req[p].ghost]]
    /\ UNCHANGED <<workspaces, collabs, notes, ids, revoked, deleted, env>>

add_content_to_note(p, tok, nid, section_no) ==
    /\ CanInvoke(p)
    /\ tok \in Presentable
    /\ LET check == NoteAccessCheck(tok, nid, {"rw"}) IN
       /\ check = "pass" => ids.content < MaxContents
       /\ req' = [req EXCEPT ![p] =
                 IF check = "pass"
                 THEN Running("add_content_to_note", "ct_insert", tok, WorkspaceOfNote(nid), None,
                              nid, "section_no", section_no, {})
                 ELSE Done("add_content_to_note", tok, WorkspaceOfNote(nid), None, nid, check)]
    /\ UNCHANGED <<workspaces, collabs, notes, contents, ids, revoked, deleted, env>>

\* lines 243-251: insert_one with the note_id of the path, then the response
add_content_to_note_insert(p) ==
    /\ req[p].pc = "ct_insert"
    /\ contents' = contents \cup
           {[_id |-> ids.content + 1, note_id |-> req[p].nid, section_no |-> req[p].val]}
    /\ ids' = [ids EXCEPT !.content = @ + 1]
    /\ req' = [req EXCEPT ![p] = Finish(req[p], "OK")]
    /\ UNCHANGED <<workspaces, collabs, notes, revoked, deleted, env>>

\* the steps of the note and content handlers of process p
NoteNext(p) ==
    \/ \E tok \in Presentable, wid \in WsIds, u \in Users, header \in Texts :
          create_note(p, tok, wid, u, header)
    \/ create_note_insert(p)
    \/ \E tok \in Presentable, wid \in WsIds : get_notes_of_workspace(p, tok, wid)
    \/ \E tok \in Presentable, nid \in NoteIds : get_note(p, tok, nid)
    \/ \E tok \in Presentable, nid \in NoteIds : get_note_contents(p, tok, nid)
    \/ \E tok \in Presentable, nid \in NoteIds, u \in NoteUpdates :
          update_note(p, tok, nid, u[1], u[2])
    \/ update_note_update(p)
    \/ \E tok \in Presentable, nid \in NoteIds : delete_note(p, tok, nid)
    \/ delete_note_note(p)
    \/ delete_note_contents(p)
    \/ \E tok \in Presentable, nid \in NoteIds, sec \in Sections :
          add_content_to_note(p, tok, nid, sec)
    \/ add_content_to_note_insert(p)

Next ==
    \/ \E u \in Users : login_user(1, u)
    \/ \E tok \in Presentable, wid \in WsIds : get_workspace_token(1, tok, wid)
    \/ WorkspaceNext(1)
    \/ NoteNext(1)
    \/ Return(1)

Spec == Init /\ [][Next]_vars

\* ---------------------------------------------------- tokens over time
\* datetime.utcnow(): time passes
tick ==
    /\ now < MaxTime
    /\ now' = now + 1
    /\ UNCHANGED <<workspaces, collabs, notes, contents, ids, req, revoked, deleted, issued, abandoned>>

\* the claims login_user passes to create_access_token for user u
LoginClaims(u) ==
    [user_id |-> u, workspace_id |-> u, workspace_name |-> "personal", access |-> "rw"]

\* a client logs in as u and keeps the token, issued at the present time
client_login(p, u) ==
    /\ CanInvoke(p)
    /\ issued' = [token |-> create_access_token(LoginClaims(u)), data |-> LoginClaims(u), at |-> now]
    /\ req' = [req EXCEPT ![p] = Done("login_user", create_access_token(LoginClaims(u)), None, u, None, "OK")]
    /\ UNCHANGED <<workspaces, collabs, notes, contents, ids, revoked, deleted, now, abandoned>>

\* the client presents the token it holds and the server verifies it
\* (get_current_user): the request gets a payload or None; val keeps the
\* time of the answer
client_request(p) ==
    /\ CanInvoke(p)
    /\ issued # NoDoc
    /\ req' = [req EXCEPT ![p] =
             [Done("verify_token", issued.token, None, None, None,
                   IF verify_token(issued.token) = NoDoc THEN "Invalid" ELSE "OK")
                EXCEPT !.val = now]]
    /\ UNCHANGED <<workspaces, collabs, notes, contents, ids, revoked, deleted, env>>

NextToken ==
    \/ tick
    \/ \E u \in Users : client_login(1, u)
    \/ client_request(1)
    \/ Return(1)

SpecToken == Init /\ [][NextToken]_vars

\* the server handles requests concurrently: the delete_workspace and
\* add_collaborator requests of two processes run with their store calls
\* interleaved, with each other's and with those of the requests by which
\* process 1 sets up a workspace, a note and its contents
RacerNext(p) ==
    \/ \E tok \in Presentable, wid \in WsIds : delete_workspace(p, tok, wid)
    \/ delete_workspace_workspace(p)
    \/ delete_workspace_collabs(p)
    \/ delete_workspace_contents(p)
    \/ delete_workspace_notes(p)
    \/ \E tok \in Presentable, wid \in WsIds, uid \in Users, acc \in AccessLevels :
          add_collaborator(p, tok, wid, uid, acc)
    \/ add_collaborator_insert(p)
    \/ Return(p)

SetupNext(p) ==
    \/ \E tok \in Presentable, name \in Texts : create_workspace(p, tok, name)
    \/ create_workspace_collab(p)
    \/ \E tok \in Presentable, wid \in WsIds :
          update_workspace(p, tok, wid, "workspace_id", wid)
    \/ update_workspace_update(p)
    \/ \E tok \in Presentable, wid \in WsIds, u \in Users, header \in Texts :
          create_note(p, tok, wid, u, header)
    \/ create_note_insert(p)
    \/ \E tok \in Presentable, nid \in NoteIds, sec \in Sections :
          add_content_to_note(p, tok, nid, sec)
    \/ add_content_to_note_insert(p)

NextConc ==
    \/ SetupNext(1)
    \/ \E p \in Procs : RacerNext(p)

SpecConc == Init /\ [][NextConc]_vars

\* the store once the first user has created the first workspace and has
\* set its workspace_id field with update_workspace, no request running
InitRace ==
    /\ LET u == CHOOSE v \in Users : \A w \in Users : v <= w
           name == CHOOSE t \in Texts : \A r \in Texts : t <= r IN
         /\ workspaces = {[_id |-> 1, user_id |-> u, workspace_name |-> name, workspace_id |-> 1]}
         /\ collabs = {[_id |-> 1, workspace_id |-> 1, user_id |-> u, access |-> "rw"]}
    /\ notes = {}
    /\ contents = {}
    /\ ids = [ws |-> 1, collab |-> 1, note |-> 0, content |-> 0]
    /\ req = [p \in Procs |-> Idle]
    /\ revoked = <<>>
    /\ deleted = {}
    /\ now = 0
    /\ issued = NoDoc
    /\ abandoned = {}

\* the requests that create and delete the dependents of a workspace, of
\* two processes, their store calls interleaved
RaceNext(p) ==
    \/ \E tok \in Presentable, wid \in WsIds, u \in Users, header \in Texts :
          create_note(p, tok, wid, u, header)
    \/ create_note_insert(p)
    \/ \E tok \in Presentable, nid \in NoteIds, sec \in Sections :
          add_content_to_note(p, tok, nid, sec)
    \/ add_content_to_note_insert(p)
    \/ \E tok \in Presentable, wid \in WsIds, uid \in Users, acc \in AccessLevels :
          add_collaborator(p, tok, wid, uid, acc)
    \/ add_collaborator_insert(p)
    \/ \E tok \in Presentable, nid \in NoteIds : delete_note(p, tok, nid)
    \/ delete_note_note(p)
    \/ delete_note_contents(p)
    \/ \E tok \in Presentable, wid \in WsIds : delete_workspace(p, tok, wid)
    \/ delete_workspace_workspace(p)
    \/ delete_workspace_collabs(p)
    \/ delete_workspace_contents(p)
    \/ delete_workspace_notes(p)
    \/ Return(p)

NextRace == \E p \in Procs : RaceNext(p)

SpecRace == InitRace /\ [][NextRace]_vars

\* one process sets up a workspace, its collaborators, a note and its
\* contents and deletes the workspace, request after request; any
\* delete_workspace may be abandoned
NextAbandon ==
    \/ SetupNext(1)
    \/ RacerNext(1)
    \/ delete_workspace_abandon(1)

SpecAbandon == Init /\ [][NextAbandon]_vars

\* ================================================================ claims
\* the caller of the request of process p, None when its token does not verify
Caller(r) == IF get_current_user(r.tok) = NoDoc THEN None ELSE r.tok.user_id

Finished(p, ops) == req[p].pc = "done" /\ req[p].op \in ops

\* process p starts a request of one of ops in this step
Invokes(p, ops) == req[p].pc = "idle" /\ req'[p].pc # "idle" /\ req'[p].op \in ops

Rejected(p, resp) == req'[p].pc = "done" /\ req'[p].resp = resp /\ store' = store

OwnerEntries(w) ==
    {c \in collabs : c.workspace_id = w._id /\ c.user_id = w.user_id /\ c.access = "rw"}

IsOwner(wid, u) == WorkspaceById(wid) # NoDoc /\ WorkspaceById(wid).user_id = u

HasAccess(wid, u, acc) == CollabOf(wid, u) # NoDoc /\ CollabOf(wid, u).access = acc

\* nothing of workspace wid is left: no record, no collaborator entry, no
\* note, and no content of a note that is gone
CascadeComplete(wid) ==
    /\ WorkspaceById(wid) = NoDoc
    /\ \A c \in collabs : c.workspace_id # wid
    /\ \A n \in notes : n.workspace_id # wid
    /\ \A c \in contents : NoteById(c.note_id) # NoDoc

ManagementOps ==
    {"add_collaborator", "update_collaborator_access", "remove_collaborator",
     "update_workspace", "delete_workspace"}

NoteReadOps == {"get_notes_of_workspace", "get_note", "get_note_contents"}

NoteWriteOps == {"create_note", "update_note", "delete_note", "add_content_to_note"}

\* C1: in every reachable state, the states between the store steps of
\* create_workspace included, every existing workspace has exactly one
\* collaborator entry of its owner with access rw.
C1_OwnerEntryInvariant ==
    \A w \in workspaces : Cardinality(OwnerEntries(w)) = 1

\* C2: once delete_workspace(W) has returned success, with no other request
\* running, the workspace record, its collaborator entries, its notes and
\* the contents of the notes it had are all gone.
C2_CascadeComplete ==
    \A p \in Procs :
      (Finished(p, {"delete_workspace"}) /\ req[p].resp = "OK") =>
        /\ WorkspaceById(req[p].wid) = NoDoc
        /\ \A c \in collabs : c.workspace_id # req[p].wid
        /\ \A n \in notes : n.workspace_id # req[p].wid /\ <<"note", n._id>> \notin req[p].ghost
        /\ \A c \in contents :
              <<"content", c._id>> \notin req[p].ghost /\ <<"note", c.note_id>> \notin req[p].ghost

\* a delete_workspace has returned success for a workspace that had a note
\* with a content section
C2_Witness ==
    /\ Finished(1, {"delete_workspace"}) /\ req[1].resp = "OK"
    /\ \E x \in req[1].ghost : x[1] = "note"
    /\ \E x \in req[1].ghost : x[1] = "content"

\* C3: for a caller whose access on workspace X is r, every read operation
\* on X succeeds and every create, update or delete operation on X fails
\* with Forbidden.
C3_ReadOnlyScope ==
    \A p \in Procs :
      (/\ Finished(p, NoteReadOps \cup NoteWriteOps \cup {"update_workspace", "delete_workspace"})
       /\ Caller(req[p]) # None
       /\ HasAccess(req[p].wid, Caller(req[p]), "r")) =>
        IF req[p].op \in NoteReadOps THEN req[p].resp = "OK" ELSE req[p].resp = "Forbidden"

\* C4: every collaborator-management or workspace call on X by a
\* collaborator of X who is not its owner is rejected with Forbidden and
\* changes no collection.
C4_OwnerOnlyManagement ==
    [][\A p \in Procs :
         (/\ Invokes(p, ManagementOps)
          /\ Caller(req'[p]) # None
          /\ CollabOf(req'[p].wid, Caller(req'[p])) # NoDoc
          /\ WorkspaceById(req'[p].wid) # NoDoc
          /\ ~IsOwner(req'[p].wid, Caller(req'[p])))
         => Rejected(p, "Forbidden")]_vars

\* a collaborator with access rw who is not the owner has tried each of the
\* management operations on the workspace
C4_Witness ==
    /\ Finished(1, {"add_collaborator"}) /\ req[1].resp = "Forbidden"
    /\ HasAccess(req[1].wid, Caller(req[1]), "rw")
    /\ WorkspaceById(req[1].wid) # NoDoc
    /\ ~IsOwner(req[1].wid, Caller(req[1]))

\* C5: after the owner of X has removed B's collaborator entry or downgraded
\* it to r, every later create_note, update_note, delete_note and
\* add_content_to_note by B on X is denied.
C5_NoStaleRights ==
    \A p \in Procs :
      (/\ Finished(p, NoteWriteOps)
       /\ Caller(req[p]) # None
       /\ revoked = <<req[p].wid, Caller(req[p])>>
       /\ ~IsOwner(req[p].wid, Caller(req[p]))
       /\ ~HasAccess(req[p].wid, Caller(req[p]), "rw"))
      => req[p].resp # "OK"

\* C6: a token issued for workspace X authorizes operations on X only: an
\* operation on a resource of another workspace is denied.
C6_SingleWorkspaceScope ==
    \A p \in Procs :
      (/\ Finished(p, ManagementOps \cup NoteReadOps \cup NoteWriteOps)
       /\ Caller(req[p]) # None
       /\ req[p].wid # None
       /\ req[p].wid # req[p].tok.workspace_id)
      => req[p].resp # "OK"

C8_CollaboratorCreatesNote ==
    \A p \in Procs :
      (/\ Finished(p, {"create_note"})
       /\ Caller(req[p]) # None
       /\ req[p].tok.access = "rw"
       /\ WorkspaceById(req[p].wid) # NoDoc
       /\ ~IsOwner(req[p].wid, Caller(req[p]))
       /\ HasAccess(req[p].wid, Caller(req[p]), "rw"))
      => req[p].resp = "OK"

\* C9 as stated: update_collaborator_access(X, u) and remove_collaborator(X, u)
\* with u the owner of X fail with InvalidOperation for every caller.
C9_InvalidOperationForEveryCaller ==
    \A p \in Procs :
      (/\ Finished(p, {"update_collaborator_access", "remove_collaborator"})
       /\ Caller(req[p]) # None
       /\ IsOwner(req[p].wid, req[p].uid))
      => req[p].resp = "InvalidOperation"

\* C9 amended: with u the owner of X, the two calls fail with
\* InvalidOperation when the caller is the owner and with Forbidden for any
\* other authenticated caller, and no collection changes in either case.
C9_OwnerSelfProtection ==
    [][\A p \in Procs :
         (/\ Invokes(p, {"update_collaborator_access", "remove_collaborator"})
          /\ Caller(req'[p]) # None
          /\ IsOwner(req'[p].wid, req'[p].uid))
         => Rejected(p, IF Caller(req'[p]) = req'[p].uid
                        THEN "InvalidOperation" ELSE "Forbidden")]_vars

\* the owner tried to remove the owner's own entry, which is still there
C9_Witness ==
    /\ Finished(1, {"remove_collaborator"}) /\ req[1].resp = "InvalidOperation"
    /\ IsOwner(req[1].wid, req[1].uid)
    /\ HasAccess(req[1].wid, req[1].uid, "rw")

\* C10: delete_workspace(W) invoked by its owner again, after a first
\* invocation has completed, returns success.
C10_DeleteIdempotent ==
    \A p \in Procs :
      (/\ Finished(p, {"delete_workspace"})
       /\ Caller(req[p]) # None
       /\ <<req[p].wid, Caller(req[p])>> \in deleted)
      => req[p].resp = "OK"

\* C11: when a delete_workspace(W) was abandoned after some prefix of its
\* store steps, running delete_workspace(W) again (before any delete of W
\* has completed) returns no error and leaves nothing of W behind.
C11_ResumableCascade ==
    \A p \in Procs :
      (/\ Finished(p, {"delete_workspace"})
       /\ Caller(req[p]) # None
       /\ <<req[p].wid, Caller(req[p])>> \in abandoned
       /\ (<<req[p].wid, Caller(req[p])>> \notin deleted \/ req[p].resp = "OK"))
      => (req[p].resp = "OK" /\ CascadeComplete(req[p].wid))

\* C12: when two delete_workspace(W) requests of the owner of W run
\* concurrently, neither returns an error: a request that has returned
\* while the other, by the same caller on the same W, is still between its
\* store calls (and that was not refused as a non-owner) has returned
\* success.
C12_ConcurrentDeleteSafe ==
    \A p, q \in Procs :
      (/\ p # q
       /\ Finished(p, {"delete_workspace"})
       /\ Caller(req[p]) # None
       /\ req[p].resp # "Forbidden"
       /\ req[q].op = "delete_workspace"
       /\ req[q].pc \in {"dw_workspace", "dw_collabs", "dw_contents"}
       /\ req[q].wid = req[p].wid
       /\ Caller(req[q]) = Caller(req[p]))
      => req[p].resp = "OK"

\* C13: delete_workspace(W) deletes the contents first, then the notes,
\* then the collaborator entries and the workspace record last: in no state
\* between two store calls of the run is there a note or a collaborator
\* entry of W while the record of W is gone, nor a content whose note is gone.
C13_WorkspaceDeleteOrdering ==
    \A p \in Procs :
      (req[p].op = "delete_workspace" /\ req[p].pc \in {"dw_workspace", "dw_collabs", "dw_contents"}) =>
        /\ WorkspaceById(req[p].wid) = NoDoc =>
              /\ \A c \in collabs : c.workspace_id # req[p].wid
              /\ \A n \in notes : n.workspace_id # req[p].wid
        /\ \A c \in contents : NoteById(c.note_id) # NoDoc

\* C14: delete_note(N) deletes the contents of N before the note record:
\* in no state between two store calls of the run is there a content whose
\* note is gone.
C14_NoteDeleteOrdering ==
    \A p \in Procs :
      (req[p].op = "delete_note" /\ req[p].pc \in {"dn_note", "dn_contents"}) =>
        \A c \in contents : NoteById(c.note_id) # NoDoc

\* C15: once delete_note(N) has returned success, no content section with
\* note_id N is left, however many N had, and a get_note or
\* get_note_contents for a note that has been deleted (its id was given
\* out and its record is gone) answers NotFound to every authenticated
\* caller.
C15_NoteCascadeComplete ==
    \A p \in Procs :
      /\ (Finished(p, {"delete_note"}) /\ req[p].resp = "OK") =>
            \A c \in contents : c.note_id # req[p].nid /\ <<"content", c._id>> \notin req[p].ghost
      /\ (/\ Finished(p, {"get_note", "get_note_contents"})
          /\ Caller(req[p]) # None
          /\ req[p].nid <= ids.note
          /\ NoteById(req[p].nid) = NoDoc)
         => req[p].resp = "NotFound"

\* a delete_note has returned success for a note that had two content sections
C15_Witness ==
    /\ Finished(1, {"delete_note"}) /\ req[1].resp = "OK"
    /\ Cardinality(req[1].ghost) = 2

\* C16: in every reachable state, the states reached by two concurrent
\* add_collaborator requests for the same workspace and user included,
\* there is at most one collaborator entry per (workspace_id, user_id).
C16_CollaboratorUniqueness ==
    \A c, d \in collabs :
      (c.workspace_id = d.workspace_id /\ c.user_id = d.user_id) => c = d

\* C17: get_workspace_token(W) answers a caller who has a collaborator
\* entry on W with a token of the caller's user_id, W and the access of
\* that entry, and answers a caller who has none with AccessDenied
\* (Forbidden, an error result and not a crash) and no token.
C17_Rescoping ==
    \A p \in Procs :
      (Finished(p, {"get_workspace_token"}) /\ Caller(req[p]) # None) =>
        IF CollabOf(req[p].wid, Caller(req[p])) = NoDoc
        THEN req[p].resp = "Forbidden" /\ issued = NoDoc
        ELSE /\ req[p].resp = "OK"
             /\ issued # NoDoc
             /\ issued.user_id = Caller(req[p])
             /\ issued.workspace_id = req[p].wid
             /\ issued.access = CollabOf(req[p].wid, Caller(req[p])).access

\* C18: every operation that takes a token answers a token that
\* verify_token does not accept with Unauthenticated, whatever the
\* operation and its arguments, and leaves the store as it was.
C18_UniformInvalidToken ==
    [][\A p \in Procs :
         (/\ Invokes(p, ManagementOps \cup NoteReadOps \cup NoteWriteOps
                          \cup {"create_workspace", "get_workspace_token"})
          /\ verify_token(req'[p].tok) = NoDoc)
         => Rejected(p, "Unauthenticated")]_vars

\* the four claims of a payload
ClaimsOf(payload) ==
    [user_id |-> payload.user_id, workspace_id |-> payload.workspace_id,
     workspace_name |-> payload.workspace_name, access |-> payload.access]

\* C19: a token created at time t verifies to exactly the claims it was
\* created with at every time up to and including t + 30 minutes, and to
\* the Invalid result (None) at every time after; a request that presented
\* it was answered accordingly.
C19_TokenLifetime ==
    issued # NoDoc =>
      /\ IF now <= issued.at + 30
         THEN /\ verify_token(issued.token) # NoDoc
              /\ ClaimsOf(verify_token(issued.token)) = issued.data
         ELSE verify_token(issued.token) = NoDoc
      /\ \A p \in Procs :
           (Finished(p, {"verify_token"}) /\ req[p].tok = issued.token) =>
             req[p].resp = IF req[p].val <= issued.at + 30 THEN "OK" ELSE "Invalid"

\* a token is presented in the first minute after its 30 minutes and refused
C19_Witness ==
    /\ issued # NoDoc
    /\ Finished(1, {"verify_token"}) /\ req[1].tok = issued.token
    /\ req[1].val = issued.at + 31 /\ req[1].resp = "Invalid"

\* a note id the store has not handed out: no note with this id exists
AbsentNote == ids.note + 1

\* what the handler of op answers the bearer of tok about a note that does
\* not exist
AnswerForAbsentNote(op, tok) ==
    IF op \in {"update_note", "delete_note"} THEN NoteOwnerCheck(tok, AbsentNote)
    ELSE IF op = "add_content_to_note" THEN NoteAccessCheck(tok, AbsentNote, {"rw"})
    ELSE NoteAccessCheck(tok, AbsentNote, {"r", "rw"})

\* C20: a caller without collaborator entry on the workspace of note N gets
\* from get_note, get_note_contents, update_note, delete_note and
\* add_content_to_note on N, while N exists, the answer the same call gets
\* for a note that does not exist.
C20_NoExistenceLeak ==
    \A p \in Procs :
      (/\ Finished(p, {"get_note", "get_note_contents", "update_note", "delete_note",
                       "add_content_to_note"})
       /\ Caller(req[p]) # None
       /\ NoteById(req[p].nid) # NoDoc
       /\ CollabOf(NoteById(req[p].nid).workspace_id, Caller(req[p])) = NoDoc)
      => req[p].resp = AnswerForAbsentNote(req[p].op, req[p].tok)

\* C21: no step changes the workspace_id of a note that exists before and
\* after it, whatever update_note is given, nor the note_id of a content
\* section.
C21_ImmutableParentLinks ==
    [][/\ \A n \in notes : \A m \in notes' :
             n._id = m._id => n.workspace_id = m.workspace_id
       /\ \A c \in contents : \A d \in contents' :
             c._id = d._id => c.note_id = d.note_id]_vars

\* C22: the list a successful get_note_contents(N) returns holds exactly
\* the content sections with note_id N, each once, by ascending
\* section_no, and sections of equal section_no in the order of their
\* insertion (ascending _id).
C22_ContentOrdering ==
    \A p \in Procs :
      (Finished(p, {"get_note_contents"}) /\ req[p].resp = "OK") =>
        LET l == req[p].out IN
        /\ {l[i] : i \in DOMAIN l} = {c \in contents : c.note_id = req[p].nid}
        /\ Len(l) = Cardinality({c \in contents : c.note_id = req[p].nid})
        /\ \A i, j \in DOMAIN l :
              i < j => \/ l[i].section_no < l[j].section_no
                       \/ l[i].section_no = l[j].section_no /\ l[i]._id < l[j]._id

\* no request is between two of its store calls
Quiescent == \A p \in Procs : req[p].pc \in {"idle", "done"}

\* C23: whenever all requests have completed, however the store calls of
\* create_note, add_content_to_note, add_collaborator, delete_note and
\* delete_workspace requests interleaved, every note's workspace exists,
\* every content section's note exists and every collaborator entry's
\* workspace exists.
C23_ReferentialIntegrity ==
    Quiescent =>
      /\ \A n \in notes : WorkspaceById(n.workspace_id) # NoDoc
      /\ \A c \in contents : NoteById(c.note_id) # NoDoc
      /\ \A c \in collabs : WorkspaceById(c.workspace_id) # NoDoc

\* C24: a request that ends in an error response (any response other than
\* success) ends in the step that started it, and that step leaves the
\* four collections as they were: the handlers make all their checks
\* before their first write.
C24_StateUnchangedOnDenial ==
    [][\A p \in Procs :
         (req[p].pc # "done" /\ req'[p].pc = "done" /\ req'[p].resp # "OK")
         => (req[p].pc = "idle" /\ store' = store)]_vars

\* a delete_note of a note with content has been refused
C24_Witness ==
    /\ Finished(1, {"delete_note"}) /\ req[1].resp = "Forbidden"
    /\ \E c \in contents : c.note_id = req[1].nid
====
